---- MODULE Spec2Model ----
(***************************************************************************)
(* A model of AppSyncJSONVisitor                                           *)
(* (packages/amplify-codegen-appsync-model-plugin/src/visitors/            *)
(*  appsync-json-metadata-visitor.ts).                                     *)
(*                                                                         *)
(* JavaScript values are modelled as tagged records: strings, booleans,    *)
(* undefined, functions, arrays and objects with insertion-ordered keys.   *)
(* Text is modelled as a sequence of tokens: a template literal or a       *)
(* join() is the concatenation of the token sequences of its parts, and    *)
(* JSON.stringify / JSON.parse are a serializer to and a recursive-descent *)
(* parser from JSON tokens.  The indentation that JSON.stringify(_,null,4) *)
(* inserts is white space between tokens and is not represented.           *)
(***************************************************************************)
EXTENDS Integers, Sequences, FiniteSets, TLC

VARIABLES
    metadataTarget, \* this._parsedConfig.metadataTarget
    modelMap,       \* getSelectedModels(): sequence of models, in schema order
    enumMap,        \* this.enumMap: sequence of [key, enum], in schema order
    naming,         \* which naming functions getModelName/getFieldName/getEnumName are
    pc,             \* position of the current generate() call
    result,         \* outcome of the last finished generate() call
    metadatObj,     \* the document the last renderer got from generateMetaData()
    resolved,       \* processConnectionDirective() runs in the current call
    calls,          \* generate() calls started on this instance
    firstResult     \* outcome of the first finished generate() call

vars == <<metadataTarget, modelMap, enumMap, naming, pc, result, metadatObj,
          resolved, calls, firstResult>>

-----------------------------------------------------------------------------
(* Bounds *)

MaxCalls == 2
MaxFields == 1

-----------------------------------------------------------------------------
(* JavaScript values *)

Undefined == [t |-> "undefined"]
Function(n) == [t |-> "function", name |-> n]
Str(s) == [t |-> "string", s |-> s]
Bool(b) == [t |-> "boolean", b |-> b]
Arr(vals) == [t |-> "array", vals |-> vals]
Obj(keys, vals) == [t |-> "object", keys |-> keys, vals |-> vals]
EmptyObj == Obj(<<>>, <<>>)

HasOwn(o, k) == \E i \in 1..Len(o.keys) : o.keys[i] = k
IndexOf(o, k) == CHOOSE i \in 1..Len(o.keys) : o.keys[i] = k
Get(o, k) == IF o.t = "object" /\ HasOwn(o, k) THEN o.vals[IndexOf(o, k)] ELSE Undefined
\* o[k] = v: an existing key keeps its position, a new key is appended
Set(o, k, v) ==
    IF HasOwn(o, k)
    THEN Obj(o.keys, [o.vals EXCEPT ![IndexOf(o, k)] = v])
    ELSE Obj(Append(o.keys, k), Append(o.vals, v))

\* properties every plain object inherits from Object.prototype; the `in`
\* operator sees them, and reading one yields a function
ObjectPrototypeKeys ==
    {"constructor", "toString", "valueOf", "hasOwnProperty", "isPrototypeOf",
     "propertyIsEnumerable", "toLocaleString"}
InheritedValue(k) == Function(IF k = "constructor" THEN "Object" ELSE k)

-----------------------------------------------------------------------------
(* Text *)

Raw(s) == [t |-> "raw", s |-> s]
Newline == [t |-> "newline"]
Punct(s) == [t |-> "punct", s |-> s]
StrTok(s) == [t |-> "str", s |-> s]
Lit(s) == [t |-> "lit", s |-> s]

RECURSIVE Join(_, _)
\* lines.join(sep)
Join(lines, sep) ==
    IF Len(lines) = 0 THEN <<>>
    ELSE IF Len(lines) = 1 THEN lines[1]
    ELSE lines[1] \o <<sep>> \o Join(Tail(lines), sep)

\* SerializeJSONProperty yields undefined for undefined and for functions
Serializable(v) == v.t \notin {"undefined", "function"}

RECURSIVE Stringify(_), StringifyMembers(_, _, _), StringifyElements(_, _)
StringifyMembers(o, i, first) ==
    IF i > Len(o.keys) THEN <<>>
    ELSE IF ~Serializable(o.vals[i]) THEN StringifyMembers(o, i + 1, first)
    ELSE (IF first THEN <<>> ELSE <<Punct(",")>>)
         \o <<StrTok(o.keys[i]), Punct(":")>> \o Stringify(o.vals[i])
         \o StringifyMembers(o, i + 1, FALSE)
StringifyElements(a, i) ==
    IF i > Len(a.vals) THEN <<>>
    ELSE (IF i = 1 THEN <<>> ELSE <<Punct(",")>>)
         \o (IF Serializable(a.vals[i]) THEN Stringify(a.vals[i]) ELSE <<Lit("null")>>)
         \o StringifyElements(a, i + 1)
\* JSON.stringify(v, null, 4) for a serializable v
Stringify(v) ==
    CASE v.t = "string" -> <<StrTok(v.s)>>
      [] v.t = "boolean" -> <<Lit(IF v.b THEN "true" ELSE "false")>>
      [] v.t = "array" -> <<Punct("[")>> \o StringifyElements(v, 1) \o <<Punct("]")>>
      [] v.t = "object" -> <<Punct("{")>> \o StringifyMembers(v, 1, TRUE) \o <<Punct("}")>>

Null == [t |-> "null"]

RECURSIVE ParseValue(_), ParseMembers(_, _), ParseElements(_, _)
\* each returns [val |-> the value parsed, rest |-> the tokens after it]
ParseMembers(toks, o) ==
    IF Head(toks) = Punct("}") THEN [val |-> o, rest |-> Tail(toks)]
    ELSE LET ts == IF Head(toks) = Punct(",") THEN Tail(toks) ELSE toks
             key == ts[1].s
             v == ParseValue(Tail(Tail(ts)))
         IN ParseMembers(v.rest, Set(o, key, v.val))
ParseElements(toks, a) ==
    IF Head(toks) = Punct("]") THEN [val |-> a, rest |-> Tail(toks)]
    ELSE LET ts == IF Head(toks) = Punct(",") THEN Tail(toks) ELSE toks
             v == ParseValue(ts)
         IN ParseElements(v.rest, Arr(Append(a.vals, v.val)))
ParseValue(toks) ==
    LET h == Head(toks) IN
    CASE h.t = "str" -> [val |-> Str(h.s), rest |-> Tail(toks)]
      [] h.t = "lit" -> [val |-> IF h.s = "null" THEN Null ELSE Bool(h.s = "true"),
                         rest |-> Tail(toks)]
      [] h = Punct("[") -> ParseElements(Tail(toks), Arr(<<>>))
      [] h = Punct("{") -> ParseMembers(Tail(toks), EmptyObj)
\* JSON.parse(text)
Parse(toks) == ParseValue(toks).val

-----------------------------------------------------------------------------
(* Imported string utilities *)

\* the characters of the names the model draws its inputs from
Chars(s) ==
    CASE s = "todo" -> <<"t", "o", "d", "o">>
      [] s = "category" -> <<"c", "a", "t", "e", "g", "o", "r", "y">>
      [] s = "todoModel" -> <<"t", "o", "d", "o", "M", "o", "d", "e", "l">>
      [] s = "categoryModel" ->
            <<"c", "a", "t", "e", "g", "o", "r", "y", "M", "o", "d", "e", "l">>

RECURSIVE FromChars(_)
FromChars(cs) == IF cs = <<>> THEN "" ELSE Head(cs) \o FromChars(Tail(cs))

UpperChar(c) ==
    CASE c = "t" -> "T"
      [] c = "c" -> "C"
      [] OTHER -> c

\* change-case upperCaseFirst: the first character in upper case
upperCaseFirstChars(cs) ==
    IF cs = <<>> THEN cs ELSE <<UpperChar(Head(cs))>> \o Tail(cs)

Vowels == {"a", "e", "i", "o", "u"}

\* pluralize plural, the rules that apply to regular nouns:
\*   /([^aeiou]|qu)y$/ -> $1ies,  /(x|ch|ss|sh|zz)$/ -> $1es,  /s?$/ -> s
pluralChars(cs) ==
    LET n == Len(cs)
        last == IF n >= 1 THEN cs[n] ELSE ""
        prev == IF n >= 2 THEN cs[n - 1] ELSE ""
    IN  IF last = "y" /\ n >= 2 /\ prev \notin Vowels
        THEN SubSeq(cs, 1, n - 1) \o <<"i", "e", "s">>
        ELSE IF last = "x" \/ (last = "h" /\ prev \in {"c", "s"})
                \/ (last = prev /\ last \in {"s", "z"})
        THEN cs \o <<"e", "s">>
        ELSE IF last = "s" THEN cs
        ELSE cs \o <<"s">>

upperCaseFirst(s) == FromChars(upperCaseFirstChars(Chars(s)))
\* plural(upperCaseFirst(s)), on the characters of s
pluralUpperCaseFirst(s) == FromChars(pluralChars(upperCaseFirstChars(Chars(s))))
\* upperCaseFirst(plural(s)), on the characters of s
upperCaseFirstPlural(s) == FromChars(upperCaseFirstChars(pluralChars(Chars(s))))

-----------------------------------------------------------------------------
(* The base visitor: registries, naming functions, connection resolution *)

Targets == {"typescript", "javascript", "typeDeclaration"}
\* rawConfig.metadataTarget: unset, empty, or any string
RawTargets == {Undefined, Str("")} \cup {Str(t) : t \in Targets \cup {"cobol"}}

ModelNames == {"todo", "category"}
TypeNames == {"String", "Status", "Todo", "constructor"}

Field(name, type, isList, isNullable, connection) ==
    [name |-> name, type |-> type, isList |-> isList, isNullable |-> isNullable,
     connection |-> connection, connectionInfo |-> Undefined]

OtherSide == [name |-> "owner"]
HasMany == [kind |-> "HAS_MANY", associatedWith |-> OtherSide]
HasOne == [kind |-> "HAS_ONE", associatedWith |-> OtherSide, targetName |-> Str("todoDetailId")]
BelongsTo(targetName) == [kind |-> "BELONGS_TO", targetName |-> targetName]

\* fields a schema type may declare, in declaration order: every type name
\* without a connection, and every connection kind on a model-typed field
FieldPool ==
    <<Field("title", "String", FALSE, FALSE, Undefined),
      Field("status", "Status", FALSE, TRUE, Undefined),
      Field("maker", "constructor", FALSE, FALSE, Undefined),
      Field("items", "Todo", TRUE, TRUE, HasMany),
      Field("detail", "Todo", FALSE, TRUE, HasOne),
      Field("parent", "Todo", FALSE, FALSE, BelongsTo(Str("todoParentId"))),
      Field("origin", "Todo", FALSE, TRUE, BelongsTo(Undefined))>>

\* the fields picked by the index set S, in declaration order
FieldsAt(S) ==
    LET order == CHOOSE o \in [1..Cardinality(S) -> S] :
                    \A i, j \in 1..Cardinality(S) : i < j => o[i] < o[j]
    IN [i \in 1..Cardinality(S) |-> FieldPool[order[i]]]

FieldLists ==
    {FieldsAt(S) : S \in {T \in SUBSET (1..Len(FieldPool)) : Cardinality(T) <= MaxFields}}

Directive(name, arguments) == [name |-> name, arguments |-> arguments]
DirectiveLists ==
    {<<>>,
     <<Directive("model", EmptyObj),
       Directive("key", Obj(<<"name", "fields">>, <<Str("byTitle"), Arr(<<Str("title")>>)>>))>>,
     <<Directive("searchable", Undefined)>>}

Models == [name : ModelNames, directives : DirectiveLists, fields : FieldLists]
\* a registry holds one model, or that model followed by a second, bare one
ModelMaps ==
    {<<m>> : m \in Models} \cup
    {mm \in {<<m, [name |-> n, directives |-> <<>>, fields |-> <<>>]>> :
                m \in Models, n \in ModelNames} : mm[1].name # mm[2].name}

Enum(name, keys, vals) == [name |-> name, values |-> Obj(keys, vals)]
StatusValues == <<"ACTIVE", "DONE">>
EnumMaps ==
    {<<>>} \cup
    {<<[key |-> "Status", enum |-> Enum(n, StatusValues, <<Str("ACTIVE"), Str("DONE")>>)]>> :
        n \in {"Status", "TaskStatus"}} \cup
    {<<[key |-> "String", enum |-> Enum("String", <<"A">>, <<Str("A")>>)]>>} \cup
    {<<[key |-> "Status", enum |-> Enum(n, StatusValues, <<Str("ACTIVE"), Str("DONE")>>)],
       [key |-> "String", enum |-> Enum("String", <<"A">>, <<Str("A")>>)]>> :
        n \in {"Status", "TaskStatus"}}

Namings == {"schema", "display"}

getModelName(model) == IF naming = "schema" THEN model.name ELSE model.name \o "Model"
getFieldName(field) == IF naming = "schema" THEN field.name ELSE field.name \o "Field"
getEnumName(enumObj) == IF naming = "schema" THEN enumObj.name ELSE enumObj.name \o "Enum"
computeVersion == "5c0d1a9b"

\* processConnectionDirective(): every field gets the connection info its
\* directives resolve to
ResolveModel(model) ==
    [model EXCEPT !.fields =
        [i \in 1..Len(model.fields) |->
            [model.fields[i] EXCEPT !.connectionInfo = model.fields[i].connection]]]
ResolvedModelMap(mm) == [i \in 1..Len(mm) |-> ResolveModel(mm[i])]

-----------------------------------------------------------------------------
(* AppSyncJSONVisitor *)

\* constructor: rawConfig.metadataTarget || 'javascript'
Constructor(rawTarget) ==
    IF rawTarget = Undefined \/ rawTarget = Str("") THEN "javascript" ELSE rawTarget.s

\* enum JSONGraphQLScalarType
JSONGraphQLScalarType == {"ID", "String", "Int", "Float", "Boolean"}

EnumKeys == {enumMap[i].key : i \in 1..Len(enumMap)}
EnumOf(key) == enumMap[CHOOSE i \in 1..Len(enumMap) : enumMap[i].key = key].enum

\* gqlType in JSONGraphQLScalarType
InScalarType(gqlType) == gqlType \in JSONGraphQLScalarType \cup ObjectPrototypeKeys
\* JSONGraphQLScalarType[gqlType]
ScalarTypeAt(gqlType) ==
    IF gqlType \in JSONGraphQLScalarType THEN Str(gqlType) ELSE InheritedValue(gqlType)
\* gqlType in this.enumMap
InEnumMap(gqlType) == gqlType \in EnumKeys \cup ObjectPrototypeKeys
\* the registry key in place of the registry object's name
EnumMapNameAt_Key(gqlType) == gqlType

\* this.enumMap[gqlType].name
EnumMapNameAt(gqlType) ==
    IF gqlType \in EnumKeys THEN EnumOf(gqlType).name ELSE InheritedValue(gqlType).name

EnumType(name) == Obj(<<"enum">>, <<Str(name)>>)
ModelType(name) == Obj(<<"model">>, <<Str(name)>>)

\* the enum registry consulted before the scalar table
getType_EnumFirst(gqlType) ==
    IF InEnumMap(gqlType) THEN EnumType(EnumMapNameAt(gqlType))
    ELSE IF InScalarType(gqlType) THEN ScalarTypeAt(gqlType)
    ELSE ModelType(gqlType)

getType(gqlType) ==
    IF InScalarType(gqlType) THEN ScalarTypeAt(gqlType)
    ELSE IF InEnumMap(gqlType) THEN EnumType(EnumMapNameAt(gqlType))
    ELSE ModelType(gqlType)

\* the plural without the capital
pluralizeModelName_NoUpperCase(model) == FromChars(pluralChars(Chars(model.name)))

pluralizeModelName(model) == pluralUpperCaseFirst(model.name)

generateModelAttributes(model) ==
    Arr([i \in 1..Len(model.directives) |->
            Obj(<<"type", "properties">>,
                <<Str(model.directives[i].name), model.directives[i].arguments>>)])

\* targetName copied for every connection kind
generateFieldAttributes_AlwaysTargetName(field) ==
    IF field.connectionInfo # Undefined
    THEN LET connectionInfo == field.connectionInfo
             connectionAttribute ==
                 IF connectionInfo.kind \in {"HAS_MANY", "HAS_ONE"}
                 THEN Obj(<<"connectionType", "associatedWith", "targetName">>,
                          <<Str(connectionInfo.kind),
                            Str(getFieldName(connectionInfo.associatedWith)),
                            IF "targetName" \in DOMAIN connectionInfo
                            THEN connectionInfo.targetName ELSE Undefined>>)
                 ELSE Obj(<<"connectionType", "targetName">>,
                          <<Str(connectionInfo.kind), connectionInfo.targetName>>)
         IN Arr(<<Obj(<<"type", "properties">>, <<Str("connection"), connectionAttribute>>)>>)
    ELSE Arr(<<>>)

generateFieldAttributes(field) ==
    IF field.connectionInfo # Undefined
    THEN LET connectionInfo == field.connectionInfo
             connectionAttribute ==
                 IF connectionInfo.kind \in {"HAS_MANY", "HAS_ONE"}
                 THEN Obj(<<"connectionType", "associatedWith">>,
                          <<Str(connectionInfo.kind),
                            Str(getFieldName(connectionInfo.associatedWith))>>)
                 ELSE Obj(<<"connectionType", "targetName">>,
                          <<Str(connectionInfo.kind), connectionInfo.targetName>>)
         IN Arr(<<Obj(<<"type", "properties">>, <<Str("connection"), connectionAttribute>>)>>)
    ELSE Arr(<<>>)

FieldEntry(field) ==
    Obj(<<"name", "targetName", "isArray", "type", "isRequired", "attributes">>,
        <<Str(getFieldName(field)), Str(field.name), Bool(field.isList),
          getType(field.type), Bool(~field.isNullable), generateFieldAttributes(field)>>)

RECURSIVE FieldsReduce(_, _, _)
\* obj.fields.reduce((acc, field) => { acc[getFieldName(field)] = ...; return acc }, {})
FieldsReduce(fields, i, acc) ==
    IF i > Len(fields) THEN acc
    ELSE FieldsReduce(fields, i + 1, Set(acc, getFieldName(fields[i]), FieldEntry(fields[i])))

ModelEntry(obj) ==
    Obj(<<"syncable", "name", "targetName", "pluralTargetName", "attributes", "fields">>,
        <<Bool(TRUE), Str(getModelName(obj)), Str(obj.name), Str(pluralizeModelName(obj)),
          generateModelAttributes(obj), FieldsReduce(obj.fields, 1, EmptyObj)>>)

\* the entry stored under the display name
ModelKey_DisplayName(obj) == getModelName(obj)

\* result.models[obj.name] = model: the key of a model's entry
ModelKey(obj) == obj.name

RECURSIVE ModelsForEach(_, _, _)
ModelsForEach(mm, i, models) ==
    IF i > Len(mm) THEN models
    ELSE ModelsForEach(mm, i + 1, Set(models, ModelKey(mm[i]), ModelEntry(mm[i])))

\* Object.values(enumObj.values)
ObjectValues(o) == Arr(o.vals)

EnumEntry(name, enumObj) ==
    Obj(<<"name", "values">>, <<Str(name), ObjectValues(enumObj.values)>>)

RECURSIVE EnumsForEach(_, _, _)
EnumsForEach(em, i, enums) ==
    IF i > Len(em) THEN enums
    ELSE EnumsForEach(em, i + 1,
            Set(enums, getEnumName(em[i].enum), EnumEntry(em[i].key, em[i].enum)))

generateMetaData ==
    Obj(<<"models", "enums", "version">>,
        <<ModelsForEach(modelMap, 1, EmptyObj), EnumsForEach(enumMap, 1, EmptyObj),
          Str(computeVersion)>>)

generateTypeScriptMetaData(metaObj) ==
    Join(<< <<Raw("import { Schema } from \"@aws-amplify/datastore\";")>>,
            <<>>,
            <<Raw("export const schema: Schema = ")>> \o Stringify(metaObj) \o <<Raw(";")>> >>,
         Newline)

\* only the models of the document serialized
generateJavaScriptMetaData_ModelsOnly(metaObj) ==
    Join(<< <<Raw("export const schema = ")>> \o Stringify(Get(metaObj, "models"))
                \o <<Raw(";")>> >>,
         Newline)

generateJavaScriptMetaData(metaObj) ==
    Join(<< <<Raw("export const schema = ")>> \o Stringify(metaObj) \o <<Raw(";")>> >>,
         Newline)

\* the stub followed by the serialized document
generateTypeDeclaration_WithDocument ==
    Join(<< <<Raw("import { Schema } from '@aws-amplify/datastore';")>>,
            <<>>,
            <<Raw("export declare const schema: Schema = ")>> \o Stringify(generateMetaData)
                \o <<Raw(";")>> >>,
         Newline)

generateTypeDeclaration ==
    Join(<< <<Raw("import { Schema } from '@aws-amplify/datastore';")>>,
            <<>>,
            <<Raw("export declare const schema: Schema;")>> >>,
         Newline)

UnsupportedMessage(target) ==
    <<Raw("Unsupported metadataTarget "), Raw(target),
      Raw(". Supported targets are javascript and typescript")>>

NoResult == [kind |-> "none"]
Return(text) == [kind |-> "return", text |-> text]
Throw(message) == [kind |-> "throw", message |-> message]

-----------------------------------------------------------------------------
(* State machine: generate() calls on one visitor instance *)

Init ==
    /\ metadataTarget \in {Constructor(raw) : raw \in RawTargets}
    /\ modelMap \in ModelMaps
    /\ enumMap \in EnumMaps
    /\ naming \in Namings
    /\ pc = "idle"
    /\ result = NoResult
    /\ metadatObj = Undefined
    /\ resolved = 0
    /\ calls = 0
    /\ firstResult = NoResult

\* a caller invokes generate()
Generate ==
    /\ pc = "idle"
    /\ calls < MaxCalls
    /\ pc' = "called"
    /\ calls' = calls + 1
    /\ resolved' = 0
    /\ result' = NoResult
    /\ metadatObj' = Undefined
    /\ UNCHANGED <<metadataTarget, modelMap, enumMap, naming, firstResult>>

\* generate(), line 87: this.processConnectionDirective()
ProcessConnectionDirective ==
    /\ pc = "called"
    /\ modelMap' = ResolvedModelMap(modelMap)
    /\ resolved' = resolved + 1
    /\ pc' = "dispatch"
    /\ UNCHANGED <<metadataTarget, enumMap, naming, result, metadatObj, calls, firstResult>>

Finish(res) ==
    /\ result' = res
    /\ firstResult' = IF calls = 1 THEN res ELSE firstResult
    /\ pc' = "idle"

\* the renderer consuming the enum registry it reads
GenerateTypeScript_ConsumeEnums ==
    /\ pc = "dispatch"
    /\ metadataTarget = "typescript"
    /\ metadatObj' = generateMetaData
    /\ Finish(Return(generateTypeScriptMetaData(generateMetaData)))
    /\ enumMap' = <<>>
    /\ UNCHANGED <<metadataTarget, modelMap, naming, resolved, calls>>

GenerateTypeScript ==
    /\ pc = "dispatch"
    /\ metadataTarget = "typescript"
    /\ metadatObj' = generateMetaData
    /\ Finish(Return(generateTypeScriptMetaData(generateMetaData)))
    /\ UNCHANGED <<metadataTarget, modelMap, enumMap, naming, resolved, calls>>

GenerateJavaScript ==
    /\ pc = "dispatch"
    /\ metadataTarget = "javascript"
    /\ metadatObj' = generateMetaData
    /\ Finish(Return(generateJavaScriptMetaData(generateMetaData)))
    /\ UNCHANGED <<metadataTarget, modelMap, enumMap, naming, resolved, calls>>

GenerateTypeDeclaration ==
    /\ pc = "dispatch"
    /\ metadataTarget = "typeDeclaration"
    /\ Finish(Return(generateTypeDeclaration))
    /\ UNCHANGED <<metadataTarget, modelMap, enumMap, naming, metadatObj, resolved, calls>>

\* the target examined before connection resolution
ThrowUnsupported_BeforeResolve ==
    /\ pc \in {"called", "dispatch"}
    /\ metadataTarget \notin {"typescript", "javascript", "typeDeclaration"}
    /\ Finish(Throw(UnsupportedMessage(metadataTarget)))
    /\ UNCHANGED <<metadataTarget, modelMap, enumMap, naming, metadatObj, resolved, calls>>

\* an unrecognized target falling back to the default renderer
ThrowUnsupported_FallBack ==
    /\ pc = "dispatch"
    /\ metadataTarget \notin {"typescript", "javascript", "typeDeclaration"}
    /\ metadatObj' = generateMetaData
    /\ Finish(Return(generateJavaScriptMetaData(generateMetaData)))
    /\ UNCHANGED <<metadataTarget, modelMap, enumMap, naming, resolved, calls>>

ThrowUnsupported ==
    /\ pc = "dispatch"
    /\ metadataTarget \notin {"typescript", "javascript", "typeDeclaration"}
    /\ Finish(Throw(UnsupportedMessage(metadataTarget)))
    /\ UNCHANGED <<metadataTarget, modelMap, enumMap, naming, metadatObj, resolved, calls>>

Next ==
    \/ Generate
    \/ ProcessConnectionDirective
    \/ GenerateTypeScript
    \/ GenerateJavaScript
    \/ GenerateTypeDeclaration
    \/ ThrowUnsupported

Spec == Init /\ [][Next]_vars

-----------------------------------------------------------------------------
(* Reading the document a renderer built *)

Built == metadatObj # Undefined
Returned == result.kind = "return"
Rendered == Returned /\ metadataTarget \in {"typescript", "javascript"}

ModelIndexes == 1..Len(modelMap)
FieldIndexes(m) == 1..Len(modelMap[m].fields)
EntryOfModel(m) == Get(Get(metadatObj, "models"), modelMap[m].name)
EntryOfField(m, f) == Get(Get(EntryOfModel(m), "fields"), getFieldName(modelMap[m].fields[f]))
TypeOfField(m, f) == Get(EntryOfField(m, f), "type")
AttributesOfField(m, f) == Get(EntryOfField(m, f), "attributes")

IsScalarForm(e) == e.t = "string" /\ e.s \in JSONGraphQLScalarType
IsEnumForm(e) == e.t = "object" /\ e.keys = <<"enum">>
IsModelForm(e) == e.t = "object" /\ e.keys = <<"model">>

\* the text between the assignment and the closing semicolon
EmbeddedJSON(text) == SelectSeq(text, LAMBDA tok : tok.t \notin {"raw", "newline"})

RECURSIVE Pruned(_)
\* v without the object keys whose value is undefined or a function
Pruned(v) ==
    CASE v.t = "object" ->
            LET keep == SelectSeq([i \in 1..Len(v.keys) |-> i],
                                  LAMBDA i : Serializable(v.vals[i]))
            IN Obj([j \in 1..Len(keep) |-> v.keys[keep[j]]],
                   [j \in 1..Len(keep) |-> Pruned(v.vals[keep[j]])])
      [] v.t = "array" ->
            Arr([i \in 1..Len(v.vals) |->
                    IF Serializable(v.vals[i]) THEN Pruned(v.vals[i]) ELSE Null])
      [] OTHER -> v

-----------------------------------------------------------------------------
(* Claims *)

Contains(message, value) == \E i \in 1..Len(message) : message[i] = Raw(value)

C2_EnumFirst ==
    Built =>
        \A m \in ModelIndexes : \A f \in FieldIndexes(m) :
            LET t == modelMap[m].fields[f].type
                e == TypeOfField(m, f)
            IN  IF t \in EnumKeys THEN IsEnumForm(e)
                ELSE IF t \in JSONGraphQLScalarType THEN e = Str(t)
                ELSE e = ModelType(t)

\* C2 (amended): the field type is resolved by testing the raw type name
\* with `in` against the scalar table first (a scalar tag yields itself, a
\* name inherited from Object.prototype yields the inherited function), the
\* enum registry second, and otherwise as a model reference; a name that is
\* both an enum key and a scalar tag yields the scalar tag; the scalar, enum
\* and model forms are mutually exclusive.
C2_ScalarFirst ==
    Built =>
        \A m \in ModelIndexes : \A f \in FieldIndexes(m) :
            LET t == modelMap[m].fields[f].type
                e == TypeOfField(m, f)
            IN  /\ IF t \in JSONGraphQLScalarType THEN e = Str(t)
                   ELSE IF t \in ObjectPrototypeKeys THEN e.t = "function"
                   ELSE IF t \in EnumKeys THEN e = EnumType(EnumOf(t).name)
                   ELSE e = ModelType(t)
                /\ ~(IsScalarForm(e) /\ IsEnumForm(e))
                /\ ~(IsScalarForm(e) /\ IsModelForm(e))
                /\ ~(IsEnumForm(e) /\ IsModelForm(e))

C2_Witness ==
    /\ Built
    /\ "String" \in EnumKeys
    /\ \E m \in ModelIndexes : \E f \in FieldIndexes(m) :
          modelMap[m].fields[f].type = "String" /\ TypeOfField(m, f) = Str("String")

\* C3 (as claimed): a field whose raw type name matches an enum of the
\* registry gets the type {enum: D}, D the enum's display name
\* (getEnumName), which is the key of the enum in result.enums.
C3_EnumDisplayName ==
    Built =>
        \A m \in ModelIndexes : \A f \in FieldIndexes(m) :
            LET t == modelMap[m].fields[f].type IN
            t \in EnumKeys =>
                /\ TypeOfField(m, f) = EnumType(getEnumName(EnumOf(t)))
                /\ HasOwn(Get(metadatObj, "enums"), getEnumName(EnumOf(t)))

\* C3 (amended): a field whose raw type name matches an enum of the registry
\* and is not matched by the scalar table gets the type {enum: N}, N the
\* name stored in the enum's registry object, never the scalar or model
\* form; the enum itself is stored in result.enums under its display name
\* (getEnumName) with the registry key as its name.
C3_EnumRegistryName ==
    Built =>
        \A m \in ModelIndexes : \A f \in FieldIndexes(m) :
            LET t == modelMap[m].fields[f].type
                e == TypeOfField(m, f)
            IN  (t \in EnumKeys /\ ~InScalarType(t)) =>
                    /\ e = EnumType(EnumOf(t).name)
                    /\ ~IsScalarForm(e)
                    /\ ~IsModelForm(e)
                    /\ Get(Get(Get(metadatObj, "enums"), getEnumName(EnumOf(t))), "name") = Str(t)

C3_Witness ==
    /\ Built
    /\ naming = "display"
    /\ \E m \in ModelIndexes : \E f \in FieldIndexes(m) :
          /\ modelMap[m].fields[f].type = "Status"
          /\ "Status" \in EnumKeys
          /\ EnumOf("Status").name = "TaskStatus"
          /\ TypeOfField(m, f) = EnumType("TaskStatus")

\* C4: every selected model's entry is stored in result.models under the
\* model's schema name; the entry's name is the display name (getModelName)
\* and its targetName is the schema name.
C4_KeyedBySchemaName ==
    Built =>
        /\ Len(Get(metadatObj, "models").keys) = Len(modelMap)
        /\ \A m \in ModelIndexes :
            LET entry == Get(Get(metadatObj, "models"), modelMap[m].name) IN
            /\ HasOwn(Get(metadatObj, "models"), modelMap[m].name)
            /\ Get(entry, "name") = Str(getModelName(modelMap[m]))
            /\ Get(entry, "targetName") = Str(modelMap[m].name)

C4_Witness ==
    /\ Built
    /\ \E m \in ModelIndexes :
          /\ getModelName(modelMap[m]) # modelMap[m].name
          /\ HasOwn(Get(metadatObj, "models"), modelMap[m].name)
          /\ ~HasOwn(Get(metadatObj, "models"), getModelName(modelMap[m]))

\* C5: a field entry has at most one attribute, one exactly when the field
\* carries connection info; the attribute's properties hold exactly one of
\* associatedWith and targetName: associatedWith, the display name of the
\* field on the other side, for HAS_MANY and HAS_ONE, and targetName for
\* every other kind.
C5_OneRelationshipKey ==
    Built =>
        \A m \in ModelIndexes : \A f \in FieldIndexes(m) :
            LET field == modelMap[m].fields[f]
                attrs == AttributesOfField(m, f).vals
            IN  /\ Len(attrs) <= 1
                /\ Len(attrs) = 1 <=> field.connectionInfo # Undefined
                /\ \A a \in 1..Len(attrs) :
                    LET props == Get(attrs[a], "properties") IN
                    /\ Get(attrs[a], "type") = Str("connection")
                    /\ Get(props, "connectionType") = Str(field.connectionInfo.kind)
                    /\ HasOwn(props, "associatedWith") # HasOwn(props, "targetName")
                    /\ IF field.connectionInfo.kind \in {"HAS_MANY", "HAS_ONE"}
                       THEN Get(props, "associatedWith") =
                                Str(getFieldName(field.connectionInfo.associatedWith))
                       ELSE /\ HasOwn(props, "targetName")
                            /\ Get(props, "targetName") = field.connectionInfo.targetName

C5_Witness ==
    /\ Built
    /\ naming = "display"
    /\ \E m \in ModelIndexes : \E f \in FieldIndexes(m) :
          /\ modelMap[m].fields[f].connectionInfo # Undefined
          /\ modelMap[m].fields[f].connectionInfo.kind = "HAS_ONE"
          /\ Len(AttributesOfField(m, f).vals) = 1
          /\ Get(AttributesOfField(m, f).vals[1], "properties").keys =
                <<"connectionType", "associatedWith">>

\* C6 (as claimed): pluralTargetName is the pluralized, first-letter-
\* capitalized form of the model's display name, the name the entry's
\* `name` holds.
C6_PluralOfDisplayName ==
    Built =>
        \A m \in ModelIndexes :
            /\ Get(EntryOfModel(m), "pluralTargetName") =
                   Str(pluralUpperCaseFirst(getModelName(modelMap[m])))
            /\ Get(EntryOfModel(m), "pluralTargetName") =
                   Str(pluralUpperCaseFirst(Get(EntryOfModel(m), "name").s))

\* C6 (amended): pluralTargetName is the pluralized, first-letter-
\* capitalized form of the model's schema name, the name the entry's
\* `targetName` holds ("Todos" for "todo", "Categories" for "category").
C6_PluralOfSchemaName ==
    Built =>
        \A m \in ModelIndexes :
            LET plural == Get(EntryOfModel(m), "pluralTargetName") IN
            /\ plural = Str(pluralUpperCaseFirst(modelMap[m].name))
            /\ plural = Str(upperCaseFirstPlural(Get(EntryOfModel(m), "targetName").s))
            /\ modelMap[m].name = "todo" => plural = Str("Todos")
            /\ modelMap[m].name = "category" => plural = Str("Categories")

C6_Witness ==
    /\ Built
    /\ naming = "display"
    /\ \E m \in ModelIndexes :
          /\ modelMap[m].name = "category"
          /\ Get(EntryOfModel(m), "name") = Str("categoryModel")
          /\ Get(EntryOfModel(m), "pluralTargetName") = Str("Categories")

TypeDeclarationStub ==
    <<Raw("import { Schema } from '@aws-amplify/datastore';"), Newline, Newline,
      Raw("export declare const schema: Schema;")>>

\* C7: with the target "typeDeclaration" every finished generate() call has
\* returned the same three-line stub, whatever the model and enum registries
\* hold.
C7_TypeDeclarationFixed ==
    (metadataTarget = "typeDeclaration" /\ result # NoResult) =>
        /\ result = Return(TypeDeclarationStub)
        /\ Cardinality({i \in 1..Len(result.text) : result.text[i] = Newline}) = 2
        /\ metadatObj = Undefined

C7_Witness ==
    /\ metadataTarget = "typeDeclaration"
    /\ result = Return(TypeDeclarationStub)
    /\ enumMap # <<>>
    /\ Len(modelMap[1].fields) > 0
    /\ modelMap[1].fields[1].connectionInfo # Undefined

\* C8 (as claimed): for "javascript" and "typescript", parsing the JSON
\* embedded in the returned text yields the document generateMetaData()
\* built, with no key lost.
C8_RoundTripExact ==
    Rendered => Parse(EmbeddedJSON(result.text)) = metadatObj

\* C8 (amended): for "javascript" and "typescript", parsing the JSON embedded
\* in the returned text yields the document generateMetaData() built without
\* the keys whose value is undefined or a function (a connection attribute's
\* absent targetName, a model attribute's absent properties, a field type
\* read from an inherited property); every other key and value is unchanged.
C8_RoundTripPruned ==
    Rendered =>
        /\ Parse(EmbeddedJSON(result.text)) = Pruned(metadatObj)
        /\ Get(Parse(EmbeddedJSON(result.text)), "models").keys = Get(metadatObj, "models").keys
        /\ Get(Parse(EmbeddedJSON(result.text)), "enums") = Get(metadatObj, "enums")

C8_Witness ==
    /\ Rendered
    /\ Pruned(metadatObj) # metadatObj
    /\ Parse(EmbeddedJSON(result.text)) = Pruned(metadatObj)
    /\ Len(Get(EntryOfModel(1), "attributes").vals) > 0
    /\ Len(Get(EntryOfModel(1), "fields").keys) > 0

AllResolved ==
    \A m \in ModelIndexes : \A f \in FieldIndexes(m) :
        modelMap[m].fields[f].connectionInfo = modelMap[m].fields[f].connection

\* C9: building and rendering the document leaves the model registry, the
\* enum registry and the target unchanged, and every finished generate()
\* call on an instance has the outcome of the first.
C9_FreshEachCall ==
    /\ [][pc = "dispatch" =>
            /\ modelMap' = modelMap
            /\ enumMap' = enumMap
            /\ metadataTarget' = metadataTarget]_vars
    /\ [](result # NoResult => result = firstResult)

C9_Witness ==
    /\ calls = 2
    /\ Rendered
    /\ result = firstResult
    /\ enumMap # <<>>
    /\ Len(modelMap[1].fields) > 0
    /\ modelMap[1].fields[1].connectionInfo # Undefined

\* C10: in every generate() call connection resolution runs exactly once
\* before the target is examined: while the target is examined, once the
\* document is built, and once the call has returned or thrown, resolution
\* has run once and every field carries its resolved connection info.
C10_ResolveBeforeDispatch ==
    /\ (pc = "dispatch" \/ Built \/ result # NoResult) => (resolved = 1 /\ AllResolved)
    /\ pc = "called" => (resolved = 0 /\ ~Built /\ result = NoResult)

C10_Witness ==
    /\ result.kind = "throw"
    /\ resolved = 1
    /\ \E m \in ModelIndexes : \E f \in FieldIndexes(m) :
          modelMap[m].fields[f].connectionInfo # Undefined

====
